---- MODULE Spec2Model ----
(***************************************************************************)
(* DataIQ: the profiling and health-scoring engine                         *)
(* (src/dataiq/data_profiler.py), modelled as a state machine.             *)
(*                                                                         *)
(* A DataFrame is a record [nrows, cols]; a column is [dtype, values];     *)
(* a cell is a tagged value [t, v].  Column i is named Names[i].           *)
(* Floating-point numbers are modelled as exact rationals [n, d]           *)
(* (d = 0 is not-a-number); a float cell's payload v counts halves         *)
(* (v = 5 is 2.5), an int cell's payload is the integer itself.            *)
(***************************************************************************)
EXTENDS Integers, Sequences, FiniteSets, TLC

VARIABLES
  df,         \* the DataFrame handed to profile()
  ret,        \* the outcome of the latest profile() call
  score,      \* the outcome of generate_data_health_score on ret
  files,      \* the CSV files under profiles_dir, by label
  prevRet,    \* the latest profile() call before this one that returned
  prevScore,  \* the latest score computed before this call
  cleaned,    \* the outcome of the latest DataCleaner.handle_nulls(df, ...)
  threads,    \* the profile() calls running in parallel, one per thread
  deduped,    \* the outcome of DataCleaner.clean_duplicates(df) and its profile
  orch,       \* one run of main.orchestrate and its connector
  dash        \* the dashboard: session state, radio and file uploader

vars ==
  <<df, ret, score, files, prevRet, prevScore, cleaned, threads, deduped, orch, dash>>

(***************************************************************************)
(* Bounds of the model.                                                    *)
(***************************************************************************)
MaxRows == 4

MaxCols == 2

MaxCells == 4

MaxCount == 4

(***************************************************************************)
(* Cells and columns.                                                      *)
(***************************************************************************)
Null == [t |-> "null", v |-> 0]

IntCell(i) == [t |-> "int", v |-> i]

FloatCell(h) == [t |-> "float", v |-> h]

BoolCell(b) == [t |-> "bool", v |-> b]

StrCell(i) == [t |-> "str", v |-> i]

\* The text of the number i ("1", "2"): a str whose content looks numeric.
\* The other str payloads stand for words ("x", "y").
NumericText(i) == StrCell(10 + i)

LooksNumeric(x) == x.t = "str" /\ x.v > 10

DtCell(i) == [t |-> "dt", v |-> i]

\* The values a pandas column of each storage type can hold.  int64 and bool
\* columns have no missing value; float64 holds NaN, datetime64 holds NaT,
\* object holds None and any Python object (here: the word "x", the texts "1"
\* and "2", and the int 1).
CellsOf(dtype) ==
  CASE dtype = "int64" -> {IntCell(1), IntCell(2)}
    [] dtype = "float64" -> {Null, FloatCell(2), FloatCell(5)}
    [] dtype = "bool" -> {BoolCell(0), BoolCell(1)}
    [] dtype = "datetime64" -> {Null, DtCell(1)}
    [] OTHER -> {Null, StrCell(1), NumericText(1), NumericText(2), IntCell(1)}

Dtypes == {"int64", "float64", "bool", "datetime64", "object"}

Names == <<"a", "b", "c", "d", "e">>

ColumnsOfLen(n) ==
  UNION {{[dtype |-> dt, values |-> vs] : vs \in [1..n -> CellsOf(dt)]} : dt \in Dtypes}

\* The shapes (rows, columns) of the frames of the model.  The row count of a
\* dataset is the common length of its columns, so a frame without columns
\* has no rows.
Shapes ==
  {s \in (0..MaxRows) \X (0..MaxCols) :
     s[1] * s[2] <= MaxCells /\ (s[2] = 0 => s[1] = 0)}

\* The four-row example of the unit test: a = [1, 2, None, 4] (float64, as
\* pandas stores integers beside a missing value), b = ["x", "y", "y", None],
\* c = [1.0, 2.5, 2.5, 4.0].
ExampleProfileFrame ==
  [nrows |-> 4,
   cols |-> <<[dtype |-> "float64",
               values |-> <<FloatCell(2), FloatCell(4), Null, FloatCell(8)>>],
              [dtype |-> "object",
               values |-> <<StrCell(1), StrCell(2), StrCell(2), Null>>],
              [dtype |-> "float64",
               values |-> <<FloatCell(2), FloatCell(5), FloatCell(5), FloatCell(8)>>]>>]

\* The three-row, two-column example of duplicate counting: rows (1,"x"),
\* (1,"x"), (2,"y").  It is a start state beside the frames of Shapes.
ExampleDuplicateFrame ==
  [nrows |-> 3,
   cols |-> <<[dtype |-> "int64", values |-> <<IntCell(1), IntCell(1), IntCell(2)>>],
              [dtype |-> "object", values |-> <<StrCell(1), StrCell(1), StrCell(2)>>]>>]

(***************************************************************************)
(* Exact rational arithmetic standing for Python floats.                   *)
(***************************************************************************)
Rat(n, d) == [n |-> n, d |-> d]

NaN == [n |-> 0, d |-> 0]

IsNaN(x) == x.d = 0

RMul(x, y) == Rat(x.n * y.n, x.d * y.d)

RSub(x, y) == Rat(x.n * y.d - y.n * x.d, x.d * y.d)

RLe(x, y) == x.n * y.d <= y.n * x.d

REq(x, y) == x.n * y.d = y.n * x.d

RLt(x, y) == x.n * y.d < y.n * x.d

\* Python's min(x, y) and max(x, y): the first argument wins a tie.
RMin(x, y) == IF RLt(y, x) THEN y ELSE x

RMax(x, y) == IF RLt(x, y) THEN y ELSE x

IMax(a, b) == IF b > a THEN b ELSE a

(***************************************************************************)
(* pandas helpers used by DataProfiler.profile.                            *)
(***************************************************************************)
RECURSIVE SumSeq(_)
SumSeq(s) == IF s = <<>> THEN 0 ELSE Head(s) + SumSeq(Tail(s))

\* pd.isna on one cell.
IsNa(x) == x.t = "null"

\* Series.dropna(), as the sequence of the remaining values.
DropNa(values) == SelectSeq(values, LAMBDA x : ~IsNa(x))

\* Series.isna().sum()
NullCount(values) == Len(values) - Len(DropNa(values))

\* A plausible slip: dropna=False, which counts the missing value as a value.
NUniqueWithNa(values) == Cardinality({values[i] : i \in 1..Len(values)})

\* Series.nunique(dropna=True)
NUnique(values) == Cardinality({values[i] : i \in {k \in 1..Len(values) : ~IsNa(values[k])}})

\* Row i of the frame, over all its columns.
RowAt(frame, i) == [j \in 1..Len(frame.cols) |-> frame.cols[j].values[i]]

\* DataFrame.empty: some axis has length 0.
FrameEmpty(frame) == frame.nrows = 0 \/ Len(frame.cols) = 0

\* A plausible slip: keep=False, which marks every occurrence of a repeated row.
DuplicatedMarkAll(frame) ==
  IF FrameEmpty(frame) THEN <<>>
  ELSE [i \in 1..frame.nrows |->
          \E k \in 1..frame.nrows : k # i /\ RowAt(frame, k) = RowAt(frame, i)]

\* DataFrame.duplicated() with keep="first": one pass over the rows with the
\* table of the rows seen so far; an empty frame gives an empty Series.
RECURSIVE DuplicatedFrom(_, _, _)
DuplicatedFrom(frame, i, seen) ==
  IF i > frame.nrows THEN <<>>
  ELSE <<RowAt(frame, i) \in seen>>
         \o DuplicatedFrom(frame, i + 1, seen \cup {RowAt(frame, i)})

Duplicated(frame) ==
  IF FrameEmpty(frame) THEN <<>> ELSE DuplicatedFrom(frame, 1, {})

\* int(Series.sum()) of a boolean Series.
CountTrue(flags) == Len(SelectSeq(flags, LAMBDA b : b))

\* A plausible slip: the repeated rows counted once per distinct row.
DuplicateRowsGroups(frame) ==
  Cardinality({RowAt(frame, i) : i \in {k \in 1..frame.nrows : Duplicated(frame)[k]}})

\* int(df.duplicated().sum())
DuplicateRows(frame) == CountTrue(Duplicated(frame))

\* int(df.isna().sum().sum())
TotalNulls(frame) == SumSeq([j \in 1..Len(frame.cols) |-> NullCount(frame.cols[j].values)])

\* A plausible slip: inference that samples the values, so that an object
\* column holding only integers is labelled int.
InferTypeByValues(col) ==
  IF col.dtype = "int64" THEN "int"
  ELSE IF col.dtype = "float64" THEN "float"
  ELSE IF col.dtype = "bool" THEN "bool"
  ELSE IF col.dtype = "datetime64" THEN "datetime"
  ELSE IF col.values # <<>> /\ \A i \in 1..Len(col.values) : col.values[i].t = "int"
    THEN "int"
  ELSE "string"

\* A plausible slip: one label for every numeric storage type.
InferTypeNumericAsInt(col) ==
  IF col.dtype \in {"int64", "float64"} THEN "int"
  ELSE IF col.dtype = "bool" THEN "bool"
  ELSE IF col.dtype = "datetime64" THEN "datetime"
  ELSE "string"

\* DataProfiler._infer_type_series: by storage type only.
InferTypeSeries(col) ==
  IF col.dtype = "int64" THEN "int"
  ELSE IF col.dtype = "float64" THEN "float"
  ELSE IF col.dtype = "bool" THEN "bool"
  ELSE IF col.dtype = "datetime64" THEN "datetime"
  ELSE "string"

\* A plausible slip: every storage type but object taken as numeric.
IsNumericDtypeLoose(col) == col.dtype # "object"

\* pd.api.types.is_numeric_dtype: bool counts as numeric.
IsNumericDtype(col) == col.dtype \in {"int64", "float64", "bool"}

\* pd.to_datetime(v) of one value: timestamps and numbers convert, bools and
\* text raise.  (Whether a numeric text converts is not observable here: a
\* datetime64 column holds timestamps and NaT only.)
ToDatetimeRaises(x) == x.t \notin {"dt", "int", "float"}

\* A plausible slip: the two return values of _is_dt exchanged.
IsDtInverted(x) == ToDatetimeRaises(x)

\* _is_dt: True when pd.to_datetime(v) converts; the exception of a failed
\* conversion is caught and turned into False.
IsDt(x) == ~ToDatetimeRaises(x)

\* A plausible slip: a text check that looks into the content and rejects
\* text that reads as a number.
ConformsInstanceSniffing(x, inferred) ==
  CASE inferred = "int" -> x.t \in {"int", "bool"}
    [] inferred = "float" -> x.t \in {"int", "float", "bool"}
    [] inferred = "bool" -> x.t = "bool"
    [] inferred = "datetime" -> IsDt(x)
    [] OTHER -> x.t = "str" /\ ~LooksNumeric(x)

\* The per-value conformance checks of profile(): isinstance against the
\* inferred type (a Python bool is an int), and _is_dt for datetime.
ConformsInstance(x, inferred) ==
  CASE inferred = "int" -> x.t \in {"int", "bool"}
    [] inferred = "float" -> x.t \in {"int", "float", "bool"}
    [] inferred = "bool" -> x.t = "bool"
    [] inferred = "datetime" -> IsDt(x)
    [] OTHER -> x.t = "str"

\* A plausible slip: the check applied to s, not s.dropna(), so that every
\* missing value counts as a mismatch.
TypeMismatchCountWithNulls(col) ==
  Len(SelectSeq(col.values, LAMBDA x : IsNa(x) \/ ~ConformsInstance(x, InferTypeSeries(col))))

\* A plausible slip: the negation (~mism) left out, counting conforming values.
TypeMismatchCountConforming(col) ==
  Len(SelectSeq(DropNa(col.values), LAMBDA x : ConformsInstance(x, InferTypeSeries(col))))

\* int((~s.dropna().apply(check)).sum())
TypeMismatchCount(col) ==
  Len(SelectSeq(DropNa(col.values), LAMBDA x : ~ConformsInstance(x, InferTypeSeries(col))))

\* Series.apply on an empty Series returns an empty Series of the same dtype,
\* ~ of an empty Series is that Series, and .sum() of a datetime64 Series is
\* not supported: a datetime column without a non-null value raises TypeError.
MismatchRaises(col) ==
  InferTypeSeries(col) = "datetime" /\ DropNa(col.values) = <<>>

(***************************************************************************)
(* Summary statistics (numeric storage types only).                        *)
(***************************************************************************)
\* The number a cell stands for, counted in halves: int i is 2i halves, a
\* float payload h is h halves, bool b (0 or 1) is 2b halves.
Halves(x) == IF x.t = "float" THEN x.v ELSE 2 * x.v

HalvesOf(values) == [i \in 1..Len(DropNa(values)) |-> Halves(DropNa(values)[i])]

SeqMin(s) == CHOOSE m \in {s[i] : i \in 1..Len(s)} : \A i \in 1..Len(s) : m <= s[i]

SeqMax(s) == CHOOSE m \in {s[i] : i \in 1..Len(s)} : \A i \in 1..Len(s) : m >= s[i]

\* The k-th smallest element of s (1-based), ties counted.
KthSmallest(s, k) ==
  CHOOSE m \in {s[i] : i \in 1..Len(s)} :
    /\ Cardinality({i \in 1..Len(s) : s[i] < m}) < k
    /\ Cardinality({i \in 1..Len(s) : s[i] <= m}) >= k

\* desc["mean"] of Series.describe(): bool columns are described as
\* categorical (count, unique, top, freq), so the key is absent there.
DescribeMean(col) ==
  IF col.dtype = "bool" \/ DropNa(col.values) = <<>> THEN NaN
  ELSE Rat(SumSeq(HalvesOf(col.values)), 2 * Len(DropNa(col.values)))

\* desc["std"]: the sample standard deviation, kept as its square (the
\* variance, in halves squared: d = 4 n (n - 1)); undefined below two values.
DescribeVar(col) ==
  LET h == HalvesOf(col.values)
      n == Len(h)
  IN IF col.dtype = "bool" \/ n < 2 THEN NaN
     ELSE Rat(n * SumSeq([i \in 1..n |-> h[i] * h[i]]) - SumSeq(h) * SumSeq(h),
              4 * n * (n - 1))

DescribeMin(col) ==
  IF col.dtype = "bool" \/ DropNa(col.values) = <<>> THEN NaN
  ELSE Rat(SeqMin(HalvesOf(col.values)), 2)

DescribeMax(col) ==
  IF col.dtype = "bool" \/ DropNa(col.values) = <<>> THEN NaN
  ELSE Rat(SeqMax(HalvesOf(col.values)), 2)

\* float(s.median()) if s.notna().any() else nan
Median(col) ==
  LET h == HalvesOf(col.values)
      n == Len(h)
  IN IF n = 0 THEN NaN
     ELSE IF n % 2 = 1 THEN Rat(KthSmallest(h, (n + 1) \div 2), 2)
     ELSE Rat(KthSmallest(h, n \div 2) + KthSmallest(h, n \div 2 + 1), 4)

(***************************************************************************)
(* DataProfiler.profile                                                    *)
(***************************************************************************)
\* One entry of summary_rows.
ColumnProfile(frame, j, duplicate_rows) ==
  LET col == frame.cols[j]
      numeric == IsNumericDtype(col)
  IN [column |-> Names[j],
      dtype |-> col.dtype,
      inferred_type |-> InferTypeSeries(col),
      null_count |-> NullCount(col.values),
      duplicate_rows |-> duplicate_rows,
      type_mismatch_count |-> TypeMismatchCount(col),
      unique_count |-> NUnique(col.values),
      mean |-> IF numeric THEN DescribeMean(col) ELSE NaN,
      median |-> IF numeric THEN Median(col) ELSE NaN,
      std |-> IF numeric THEN DescribeVar(col) ELSE NaN,
      min |-> IF numeric THEN DescribeMin(col) ELSE NaN,
      max |-> IF numeric THEN DescribeMax(col) ELSE NaN,
      total_rows |-> Len(col.values)]

\* A plausible slip: summary_rows kept on the profiler between calls (or a
\* mutable default), so a call starts from the rows of the call before.
SummaryRowsKept == IF ret.kind = "ok" THEN ret.value.per_column ELSE <<>>

\* summary_rows = [] at the start of every call.
SummaryRowsStart == <<>>

\* The loop over df.columns, in column order.
SummaryRows(frame) ==
  SummaryRowsStart
    \o [j \in 1..Len(frame.cols) |-> ColumnProfile(frame, j, DuplicateRows(frame))]

\* The loop raises when the mismatch count of some column does.
LoopRaises(frame) == \E j \in 1..Len(frame.cols) : MismatchRaises(frame.cols[j])

\* A name is a sequence of pieces, each a path separator or text without one.
\* No name (None, or the empty string) is the empty sequence.
Sep == "/"

NoName == <<>>

ProfileNames == {NoName, <<"a", Sep, "b">>}

\* str.replace(os.sep, "_")
ReplaceSep(s) == [i \in 1..Len(s) |-> IF s[i] = Sep THEN "_" ELSE s[i]]

\* A plausible slip: the name left out of the file name.
BaseLabelFixed(name) == <<"dataset">>

\* base = (name or "dataset").replace(os.sep, "_")
BaseLabel(name) == ReplaceSep(IF name = NoName THEN <<"dataset">> ELSE name)

\* out_path = os.path.join(self.profiles_dir, f"profile_{base}.csv")
OutPath(name) ==
  [dir |-> "profiles", file |-> <<"profile_">> \o BaseLabel(name) \o <<".csv">>]

\* The keys of a summary row, in the order of the dict.
ProfileFields ==
  <<"column", "dtype", "inferred_type", "null_count", "duplicate_rows",
    "type_mismatch_count", "unique_count", "mean", "median", "std", "min",
    "max", "total_rows">>

\* pd.DataFrame(summary_rows).to_csv(out_path, index=False): the columns of
\* the frame are the keys of the rows, so a frame built from no row has no
\* column and its header line is empty.
CsvFile(summary_rows) ==
  [exists |-> TRUE,
   header |-> IF summary_rows = <<>> THEN <<>> ELSE ProfileFields,
   rows |-> summary_rows]

Overall(frame) ==
  [rows |-> frame.nrows,
   duplicate_rows |-> DuplicateRows(frame),
   total_nulls |-> TotalNulls(frame),
   columns |-> Len(frame.cols)]

NoValue == [per_column |-> <<>>, overall |-> [rows |-> 0, duplicate_rows |-> 0, total_nulls |-> 0, columns |-> 0], csv_path |-> [dir |-> "", file |-> <<>>]]

NoCall == [kind |-> "none", exc |-> "", has_value |-> FALSE, value |-> NoValue]

\* An exception propagates out of profile(): the caller gets no return value.
Raised(exc) == [kind |-> "raise", exc |-> exc, has_value |-> FALSE, value |-> NoValue]

Returned(value) == [kind |-> "ok", exc |-> "", has_value |-> TRUE, value |-> value]

\* What one call of profile(df, name) does: the outcome handed to the caller.
\* to_csv fails (io_ok = FALSE) by raising OSError before anything is returned.
\* A plausible slip: the nulls dropped in place (dropna(inplace=True)) while
\* the values are checked.
DfAfterProfileDropped(frame) ==
  [nrows |-> frame.nrows,
   cols |-> [j \in 1..Len(frame.cols) |->
               [dtype |-> frame.cols[j].dtype, values |-> DropNa(frame.cols[j].values)]]]

\* The caller's DataFrame after profile(): the method reads df (df[col],
\* s.dropna(), s.describe() build new objects) and assigns to none of it.
DfAfterProfile(frame) == frame

ProfileOutcome(frame, name, io_ok) ==
  IF LoopRaises(frame) THEN Raised("TypeError")
  ELSE IF ~io_ok THEN Raised("OSError")
  ELSE Returned([per_column |-> SummaryRows(frame),
                 overall |-> Overall(frame),
                 csv_path |-> OutPath(name)])

(***************************************************************************)
(* DataProfiler.generate_data_health_score                                 *)
(***************************************************************************)
ScoreStart == 100

NullWeight == 50

DupWeight == 25

MismatchWeight == 25

\* A plausible slip: the floor at 1 left out.
RowsUnfloored(profile) == profile.overall.rows

\* rows = max(1, overall.get("rows", 1))
RowsOf(profile) == IMax(1, profile.overall.rows)

\* rows * max(1, len(df_cols))
CellCount(profile) == RowsOf(profile) * IMax(1, Len(profile.per_column))

\* float(df_cols["type_mismatch_count"].sum())
MismatchSum(profile) ==
  SumSeq([j \in 1..Len(profile.per_column) |-> profile.per_column[j].type_mismatch_count])

\* A plausible slip: floor division (//) for the ratio.
NullRatioFloorDiv(profile) ==
  RMin(Rat(1, 1), Rat(profile.overall.total_nulls \div CellCount(profile), 1))

\* A plausible slip: the null ratio taken per row.
NullRatioPerRow(profile) ==
  RMin(Rat(1, 1), Rat(profile.overall.total_nulls, RowsOf(profile)))

\* A plausible slip: the cap min(1.0, ...) left out.
NullRatioUncapped(profile) == Rat(profile.overall.total_nulls, CellCount(profile))

\* null_ratio = min(1.0, total_nulls / (rows * max(1, len(df_cols))))
NullRatio(profile) == RMin(Rat(1, 1), Rat(profile.overall.total_nulls, CellCount(profile)))

\* A plausible slip: the duplicate ratio taken per cell, like the other two.
DupRatioPerCell(profile) ==
  RMin(Rat(1, 1), Rat(profile.overall.duplicate_rows, CellCount(profile)))

\* dup_ratio = min(1.0, duplicate_rows / rows)
DupRatio(profile) == RMin(Rat(1, 1), Rat(profile.overall.duplicate_rows, RowsOf(profile)))

\* mismatch_ratio = min(1.0, sum / (rows * max(1, len(df_cols))))
MismatchRatio(profile) == RMin(Rat(1, 1), Rat(MismatchSum(profile), CellCount(profile)))

\* score = max(0.0, min(100.0, score))
Clamp(x) == RMax(Rat(0, 1), RMin(Rat(100, 1), x))

\* A division by zero raises ZeroDivisionError.
DivisionFails(profile) == RowsOf(profile) = 0 \/ CellCount(profile) = 0

\* The naive formula, ratios uncapped and the result unclamped.
HealthScoreRaw(profile) ==
  RSub(RSub(RSub(Rat(ScoreStart, 1),
                 RMul(Rat(NullWeight, 1), Rat(profile.overall.total_nulls, CellCount(profile)))),
            RMul(Rat(DupWeight, 1), Rat(profile.overall.duplicate_rows, RowsOf(profile)))),
       RMul(Rat(MismatchWeight, 1), Rat(MismatchSum(profile), CellCount(profile))))

\* score = 100.0, less the three penalties (lines 167-170).
ScoreBeforeClamp(profile) ==
  RSub(RSub(RSub(Rat(ScoreStart, 1),
                 RMul(Rat(NullWeight, 1), NullRatio(profile))),
            RMul(Rat(DupWeight, 1), DupRatio(profile))),
       RMul(Rat(MismatchWeight, 1), MismatchRatio(profile)))

\* The score of a profile, the divisions having succeeded.
HealthScore(profile) == Clamp(ScoreBeforeClamp(profile))

NoScore == [kind |-> "none", n |-> 0, d |-> 1]

ScoreOutcome(profile) ==
  IF DivisionFails(profile) THEN [kind |-> "raise", n |-> 0, d |-> 1]
  ELSE [kind |-> "float", n |-> HealthScore(profile).n, d |-> HealthScore(profile).d]

(***************************************************************************)
(* DataCleaner.clean_duplicates                                            *)
(***************************************************************************)
\* The rows of a frame at the given indices, in that order.
TakeRows(frame, kept) ==
  [nrows |-> Len(kept),
   cols |-> [j \in 1..Len(frame.cols) |->
               [dtype |-> frame.cols[j].dtype,
                values |-> [k \in 1..Len(kept) |-> frame.cols[j].values[kept[k]]]]]]

\* A plausible slip: keep="last", which keeps the last occurrence of a row.
DropDuplicatesKeepLast(frame) ==
  IF FrameEmpty(frame) THEN frame
  ELSE TakeRows(frame,
                SelectSeq([i \in 1..frame.nrows |-> i],
                          LAMBDA i : \A k \in (i + 1)..frame.nrows :
                                       RowAt(frame, k) # RowAt(frame, i)))

\* df.drop_duplicates(): the rows that duplicated() does not mark; an empty
\* frame is returned as a copy.
DropDuplicates(frame) ==
  IF FrameEmpty(frame) THEN frame
  ELSE TakeRows(frame,
                SelectSeq([i \in 1..frame.nrows |-> i],
                          LAMBDA i : ~Duplicated(frame)[i]))

(***************************************************************************)
(* DataCleaner.handle_nulls                                                *)
(***************************************************************************)
\* The cells of a cleaned frame carry the exact number n/d they stand for (a
\* float payload of h halves is h/2), so that a mean can be a cell.
NumCell(x) == [t |-> x.t, n |-> x.v, d |-> IF x.t = "float" THEN 2 ELSE 1]

\* The empty text "".
EmptyText == NumCell(StrCell(0))

NumColumn(col) ==
  [dtype |-> col.dtype,
   values |-> [i \in 1..Len(col.values) |-> NumCell(col.values[i])]]

Strategies == {"drop", "fill_mean", "fill_median"}

\* df.dropna(): the rows without a missing value, in order.
DropNaRows(frame) ==
  LET kept == SelectSeq([i \in 1..frame.nrows |-> i],
                        LAMBDA i : \A j \in 1..Len(frame.cols) :
                                     ~IsNa(frame.cols[j].values[i]))
  IN [nrows |-> Len(kept),
      cols |-> [j \in 1..Len(frame.cols) |->
                  [dtype |-> frame.cols[j].dtype,
                   values |-> [k \in 1..Len(kept) |->
                                 NumCell(frame.cols[j].values[kept[k]])]]]]

\* select_dtypes(include=[np.number]): integers and floats, not bool.
IsNumberDtype(col) == col.dtype \in {"int64", "float64"}

\* cleaned[c].isna().any()
HasNa(col) == \E i \in 1..Len(col.values) : IsNa(col.values[i])

\* Series.mean(): the mean of the non-null values, NaN when there is none.
SeriesMean(col) ==
  IF DropNa(col.values) = <<>> THEN NaN
  ELSE Rat(SumSeq(HalvesOf(col.values)), 2 * Len(DropNa(col.values)))

\* Series.fillna(value): a NaN value leaves the missing values missing.
FillNa(col, dtype, value) ==
  [dtype |-> dtype,
   values |-> [i \in 1..Len(col.values) |->
                 IF IsNa(col.values[i]) THEN value ELSE NumCell(col.values[i])]]

MeanCell(col) ==
  IF IsNaN(SeriesMean(col)) THEN NumCell(Null)
  ELSE [t |-> "float", n |-> SeriesMean(col).n, d |-> SeriesMean(col).d]

\* Series.mode(dropna=True): the most frequent non-null values.
Modes(values) ==
  LET present == {values[i] : i \in {k \in 1..Len(values) : ~IsNa(values[k])}}
      count(x) == Cardinality({i \in 1..Len(values) : values[i] = x})
  IN {x \in present : \A y \in present : count(y) <= count(x)}

\* mode_val.iloc[0]: the modes come sorted, so values of one type give the
\* least of them; the order of modes of mixed types is not fixed by the code.
FirstModes(values) ==
  IF \A x, y \in Modes(values) : x.t = y.t
    THEN {x \in Modes(values) : \A y \in Modes(values) : x.v <= y.v}
    ELSE Modes(values)

\* fill_val = mode_val.iloc[0] if not mode_val.empty else ""
FillValues(col) ==
  IF Modes(col.values) = {} THEN {EmptyText}
  ELSE {NumCell(x) : x \in FirstModes(col.values)}

\* fillna("") on a datetime64 column cannot keep the storage type: pandas
\* either moves the column to object or refuses with TypeError.
FillNeedsUpcast(col) == col.dtype = "datetime64" /\ DropNa(col.values) = <<>>

NoCleaning ==
  [kind |-> "none", exc |-> "", strategy |-> "", frame |-> [nrows |-> 0, cols |-> <<>>]]

CleaningRaised(exc, strategy) ==
  [kind |-> "raise", exc |-> exc, strategy |-> strategy,
   frame |-> [nrows |-> 0, cols |-> <<>>]]

Cleaned(frame, strategy) ==
  [kind |-> "ok", exc |-> "", strategy |-> strategy, frame |-> frame]

\* handle_nulls(df, strategy); fill[j] is the mode taken for column j, upcast
\* tells whether pandas moves a datetime column to object.
HandleNullsOutcome(frame, strategy, fill, upcast) ==
  IF strategy \notin {"drop", "fill_mean"} THEN CleaningRaised("ValueError", strategy)
  ELSE IF strategy = "drop" THEN Cleaned(DropNaRows(frame), strategy)
  ELSE IF /\ ~upcast
          /\ \E j \in 1..Len(frame.cols) :
               HasNa(frame.cols[j]) /\ FillNeedsUpcast(frame.cols[j])
    THEN CleaningRaised("TypeError", strategy)
  ELSE Cleaned(
         [nrows |-> frame.nrows,
          cols |-> [j \in 1..Len(frame.cols) |->
                      LET col == frame.cols[j]
                      IN IF ~HasNa(col) THEN NumColumn(col)
                         ELSE IF IsNumberDtype(col)
                           THEN FillNa(col, col.dtype, MeanCell(col))
                         ELSE FillNa(col,
                                     IF FillNeedsUpcast(col) THEN "object"
                                     ELSE col.dtype,
                                     fill[j])]],
         strategy)

(***************************************************************************)
(* OracleConnector (src/dataiq/oracle_connector.py) and main.orchestrate.  *)
(* A connector is a record: its engine ("none", "created", "disposed"),    *)
(* the connections it has open, the connections it ever opened, and how    *)
(* often dispose() was called on it.                                       *)
(***************************************************************************)
NoConnector ==
  [built |-> FALSE, engine |-> "none", open |-> 0, opened |-> 0, dispose_calls |-> 0]

\* OracleConnector.__init__: the engine attribute starts as None.
NewConnector == [NoConnector EXCEPT !.built = TRUE]

\* Connection.__exit__ closing the connection when the with block is left
\* only after a successful probe.
ExitWithOnSuccess(c, probe_ok) ==
  IF probe_ok THEN [c EXCEPT !.open = @ - 1] ELSE c

\* Connection.__exit__: the with block closes the connection however the
\* block is left.
ExitWith(c, probe_ok) == [c EXCEPT !.open = @ - 1]

\* test_connection(): get_engine, connect and the probe all run inside the
\* try; any failure is logged and turned into False.
TestConnectionOutcome(c, engine_ok, connect_ok, probe_ok) ==
  IF c.engine = "none" /\ ~engine_ok
  THEN [result |-> FALSE, raised |-> FALSE, conn |-> c]
  ELSE LET c1 == [c EXCEPT !.engine = "created"] IN
       IF ~connect_ok
       THEN [result |-> FALSE, raised |-> FALSE, conn |-> c1]
       ELSE [result |-> probe_ok, raised |-> FALSE,
             conn |-> ExitWith([c1 EXCEPT !.open = @ + 1, !.opened = @ + 1],
                               probe_ok)]

\* dispose() that leaves the engine alone.
DisposeNothing(c) == [c EXCEPT !.dispose_calls = @ + 1]

\* dispose(): disposes the engine when there is one.
Dispose(c) ==
  [c EXCEPT !.dispose_calls = @ + 1,
            !.engine = IF @ = "none" THEN "none" ELSE "disposed"]

\* The modes of the command line; "export" stands for any other word.
KnownModes == {"profile", "clean", "detect", "report", "all"}

AllModes == KnownModes \cup {"export"}

\* The calls of each branch of the mode dispatch, in order ("fetch" is
\* conn.fetch_table_data called by the branch itself).
StagesOf(mode) ==
  CASE mode = "profile" -> <<"profile">>
    [] mode = "clean"   -> <<"fetch", "clean">>
    [] mode = "detect"  -> <<"fetch", "detect">>
    [] mode = "report"  -> <<"profile", "detect", "report">>
    [] mode = "all"     -> <<"profile", "clean", "detect", "report">>
    [] OTHER            -> <<>>

\* orchestrate not called yet.  table "" is no table given; lookup is what
\* get_table_names did ("none": not called); pending is the value of the
\* return statement reached (-1: none yet) and exit the value returned.
IdleOrch ==
  [pc |-> "idle", mode |-> "", table |-> "", conn |-> NoConnector,
   tested |-> "none", env |-> <<FALSE, FALSE, FALSE>>, lookup |-> "none",
   todo |-> <<>>, done |-> <<>>, failed |-> FALSE, pending |-> -1, exit |-> -1]

(***************************************************************************)
(* The dashboard (src/dashboard/app.py).  A dataset or a result is named   *)
(* by the file it came from; "None" is Python's None.                      *)
(***************************************************************************)
NoUpload == [name |-> "None", readable |-> FALSE]

\* The files a user can put in the uploader: three names, each with readable
\* or unreadable content.
UploadFiles == [name : {"a.csv", "b.csv", "c.csv"}, readable : BOOLEAN]

\* The session state of a new dashboard session (its defaults), the radio on
\* its first option and an empty uploader.
DashStart ==
  [data_source |-> "Oracle Database", uploaded_data |-> "None",
   uploaded_filename |-> "None", profiling_result |-> "None",
   cleaned_data |-> "None", anomaly_result |-> "None",
   oracle_connected |-> FALSE, radio |-> "CSV Upload", uploader |-> NoUpload]

\* The reset on a data source switch (before st.rerun()).
SwitchReset(d) ==
  [d EXCEPT !.data_source = d.radio, !.uploaded_data = "None",
            !.profiling_result = "None", !.cleaned_data = "None",
            !.anomaly_result = "None"]

\* display_csv_upload_and_actions, the uploader part: a file whose name
\* differs from uploaded_filename clears the results and is read.
LoadUpload(d) ==
  IF d.uploader = NoUpload \/ d.uploaded_filename = d.uploader.name
  THEN d
  ELSE LET cleared == [d EXCEPT !.profiling_result = "None",
                                !.cleaned_data = "None",
                                !.anomaly_result = "None"] IN
       IF d.uploader.readable
       THEN [cleared EXCEPT !.uploaded_data = d.uploader.name,
                            !.uploaded_filename = d.uploader.name]
       ELSE [cleared EXCEPT !.uploaded_data = "None"]

Buttons == {"profile", "clean", "detect"}

\* display_csv_upload_and_actions, the buttons: disabled without data; an
\* action that raises shows an error and stores nothing.
ClickButton(d, button, ok) ==
  IF d.uploaded_data = "None" \/ ~ok \/ button \notin Buttons
  THEN d
  ELSE CASE button = "profile" -> [d EXCEPT !.profiling_result = d.uploaded_data]
         [] button = "clean"   -> [d EXCEPT !.cleaned_data = d.uploaded_data]
         [] button = "detect"  -> [d EXCEPT !.anomaly_result = d.uploaded_data]

\* The page below the radio: the CSV section, or the Oracle section, where
\* connectivity is tested until it once succeeded (db_ok: the test returns
\* True) and where the uploader is not drawn, so its file is dropped.
Render(d, button, ok, db_ok) ==
  IF d.data_source = "CSV Upload"
  THEN ClickButton(LoadUpload(d), button, ok)
  ELSE [d EXCEPT !.uploader = NoUpload,
                 !.oracle_connected = @ \/ db_ok]

\* One script run after a user event, with the rerun a switch asks for.
ScriptRun(d, button, ok, db_ok) ==
  IF d.radio # d.data_source
  THEN Render(SwitchReset(d), "none", TRUE, db_ok)
  ELSE Render(d, button, ok, db_ok)

(***************************************************************************)
(* The state machine.                                                      *)
(***************************************************************************)
ThreadIds == {1, 2}

\* clean_duplicates not called yet.
NoDedup == [kind |-> "none", frame |-> [nrows |-> 0, cols |-> <<>>], ret |-> NoCall]

\* The parts of the state the profiler does not touch.
Elsewhere == UNCHANGED <<deduped, orch, dash>>

ElsewhereIdle == deduped = NoDedup /\ orch = IdleOrch /\ dash = DashStart

IdleThread ==
  [pc |-> "idle", df |-> [nrows |-> 0, cols |-> <<>>], name |-> NoName,
   duplicate_rows |-> 0, summary_rows |-> <<>>, ret |-> NoCall]

Paths == {OutPath(name) : name \in ProfileNames}

NoFile == [exists |-> FALSE, header |-> <<>>, rows |-> <<>>]

Init ==
  /\ \/ \E s \in Shapes : \E cs \in [1..s[2] -> ColumnsOfLen(s[1])] :
          df = [nrows |-> s[1], cols |-> cs]
     \/ df = ExampleDuplicateFrame
     \/ df = ExampleProfileFrame
  /\ ret = NoCall
  /\ score = NoScore
  /\ files = [l \in Paths |-> NoFile]
  /\ prevRet = NoCall
  /\ prevScore = NoScore
  /\ cleaned = NoCleaning
  /\ threads = [t \in ThreadIds |-> IdleThread]
  /\ ElsewhereIdle

\* One call profile(df, name); the caller's earlier score belongs to the
\* earlier profile and is dropped.
Profile(name, io_ok) ==
  /\ df' = DfAfterProfile(df)
  /\ ret' = ProfileOutcome(df, name, io_ok)
  /\ files' = IF ret'.kind = "ok"
              THEN [files EXCEPT ![OutPath(name)] = CsvFile(ret'.value.per_column)]
              ELSE files
  /\ score' = NoScore
  /\ prevRet' = IF ret.kind = "ok" THEN ret ELSE prevRet
  /\ prevScore' = IF score.kind = "float" THEN score ELSE prevScore
  /\ UNCHANGED <<cleaned, threads>>
  /\ Elsewhere

\* One call generate_data_health_score(ret) on the profile returned last;
\* a score computed before from the same profile is remembered.
GenerateDataHealthScore ==
  /\ ret.kind = "ok"
  /\ score' = ScoreOutcome(ret.value)
  /\ prevScore' = IF score.kind = "float" THEN score ELSE prevScore
  /\ UNCHANGED <<df, ret, files, prevRet, cleaned, threads>>
  /\ Elsewhere

Next ==
  \/ \E name \in ProfileNames, io_ok \in BOOLEAN : Profile(name, io_ok)
  \/ GenerateDataHealthScore

Spec == Init /\ [][Next]_vars

(***************************************************************************)
(* Cleaning: handle_nulls called on the frames of Init.                    *)
(***************************************************************************)
HandleNulls(strategy, fill, upcast) ==
  /\ \A j \in 1..Len(df.cols) : fill[j] \in FillValues(df.cols[j])
  /\ cleaned' = HandleNullsOutcome(df, strategy, fill, upcast)
  /\ UNCHANGED <<df, ret, score, files, prevRet, prevScore, threads>>
  /\ Elsewhere

NextClean ==
  \E strategy \in Strategies, upcast \in BOOLEAN :
    \E fill \in [1..Len(df.cols) -> UNION {FillValues(df.cols[j]) : j \in 1..Len(df.cols)}] :
      HandleNulls(strategy, fill, upcast)

SpecClean == Init /\ [][NextClean]_vars

(***************************************************************************)
(* Removing duplicates: clean_duplicates called on the frames of Init,     *)
(* beside profile() of the frame and of the cleaned frame.                 *)
(***************************************************************************)
CleanDuplicates ==
  /\ deduped' = [kind |-> "ok", frame |-> DropDuplicates(df), ret |-> NoCall]
  /\ UNCHANGED <<df, ret, score, files, prevRet, prevScore, cleaned, threads, orch, dash>>

\* profile(clean_duplicates(df), name)
ProfileDeduped(name, io_ok) ==
  /\ deduped.kind = "ok"
  /\ deduped' = [deduped EXCEPT !.frame = DfAfterProfile(deduped.frame),
                                !.ret = ProfileOutcome(deduped.frame, name, io_ok)]
  /\ files' = IF deduped'.ret.kind = "ok"
              THEN [files EXCEPT ![OutPath(name)] = CsvFile(deduped'.ret.value.per_column)]
              ELSE files
  /\ UNCHANGED <<df, ret, score, prevRet, prevScore, cleaned, threads, orch, dash>>

\* The dataset is profiled without a name, the cleaned one as "a/b".
NextDedup ==
  \/ CleanDuplicates
  \/ \E io_ok \in BOOLEAN : Profile(NoName, io_ok)
  \/ \E io_ok \in BOOLEAN : ProfileDeduped(<<"a", Sep, "b">>, io_ok)

SpecDedup == Init /\ [][NextDedup]_vars

(***************************************************************************)
(* Parallel profiling: two threads each run one profile() call on their    *)
(* own dataset under their own name; a step is one statement of the call,  *)
(* and the files are shared.                                               *)
(***************************************************************************)
\* The frames of the first thread: those of Shapes with at most one row.
\* The second thread profiles one of the two examples.
ParShapes == {s \in Shapes : s[1] <= 1}

\* The names of the parallel calls: the second thread profiles under "a/b",
\* the first under another name, with no name or with "a_b".
ParNames == {NoName, <<"a", "_", "b">>}

InitPar ==
  /\ df = [nrows |-> 0, cols |-> <<>>]
  /\ ret = NoCall
  /\ score = NoScore
  /\ files = [l \in Paths |-> NoFile]
  /\ prevRet = NoCall
  /\ prevScore = NoScore
  /\ cleaned = NoCleaning
  /\ ElsewhereIdle
  /\ \E s \in ParShapes : \E cs \in [1..s[2] -> ColumnsOfLen(s[1])] :
       \E other \in {ExampleDuplicateFrame, ExampleProfileFrame} :
         \E names \in [ThreadIds -> ParNames \cup ProfileNames] :
           /\ names[1] \in ParNames
           /\ names[2] = <<"a", Sep, "b">>
           /\ threads =
                [t \in ThreadIds |->
                   [pc |-> "start",
                    df |-> IF t = 1 THEN [nrows |-> s[1], cols |-> cs] ELSE other,
                    name |-> names[t],
                    duplicate_rows |-> 0,
                    summary_rows |-> <<>>,
                    ret |-> NoCall]]

Sequential ==
  UNCHANGED <<df, ret, score, prevRet, prevScore, cleaned, deduped, orch, dash>>

\* summary_rows = []
PStart(t) ==
  /\ threads[t].pc = "start"
  /\ threads' = [threads EXCEPT ![t].pc = "duplicates",
                                ![t].summary_rows = SummaryRowsStart]
  /\ UNCHANGED files
  /\ Sequential

\* duplicate_rows = int(df.duplicated().sum())
PDuplicates(t) ==
  /\ threads[t].pc = "duplicates"
  /\ threads' = [threads EXCEPT ![t].pc = "loop",
                                ![t].duplicate_rows = DuplicateRows(threads[t].df)]
  /\ UNCHANGED files
  /\ Sequential

\* One pass of the loop over df.columns: the next column is profiled and its
\* row appended, or the mismatch count raises and the call ends.
PColumn(t) ==
  LET self == threads[t]
      j == Len(self.summary_rows) + 1
  IN /\ self.pc = "loop"
     /\ j <= Len(self.df.cols)
     /\ threads' =
          IF MismatchRaises(self.df.cols[j])
            THEN [threads EXCEPT ![t].pc = "done", ![t].ret = Raised("TypeError")]
            ELSE [threads EXCEPT ![t].summary_rows =
                    Append(self.summary_rows,
                           ColumnProfile(self.df, j, self.duplicate_rows))]
     /\ UNCHANGED files
     /\ Sequential

\* prof_df.to_csv(out_path, index=False), the loop being over.
PWrite(t) ==
  LET self == threads[t]
  IN /\ self.pc = "loop"
     /\ Len(self.summary_rows) = Len(self.df.cols)
     /\ files' = [files EXCEPT ![OutPath(self.name)] = CsvFile(self.summary_rows)]
     /\ threads' = [threads EXCEPT ![t].pc = "written"]
     /\ Sequential

\* return {"per_column": ..., "overall": ..., "csv_path": out_path}
PReturn(t) ==
  LET self == threads[t]
  IN /\ self.pc = "written"
     /\ threads' = [threads EXCEPT
                      ![t].pc = "done",
                      ![t].ret = Returned([per_column |-> self.summary_rows,
                                           overall |-> Overall(self.df),
                                           csv_path |-> OutPath(self.name)])]
     /\ UNCHANGED files
     /\ Sequential

NextPar ==
  \E t \in ThreadIds :
    \/ PStart(t)
    \/ PDuplicates(t)
    \/ PColumn(t)
    \/ PWrite(t)
    \/ PReturn(t)

SpecPar == InitPar /\ [][NextPar]_vars

(***************************************************************************)
(* main.orchestrate(mode, table, limit), one step per statement: the       *)
(* constructor call, the connectivity test, the table lookup, the mode     *)
(* dispatch, each stage of the mode, the finally clause and the return.    *)
(***************************************************************************)
\* The profiler and the cleaner are at rest while orchestrate and the
\* dashboard are looked at.
ProfilerAtRest ==
  /\ df = ExampleProfileFrame
  /\ ret = NoCall
  /\ score = NoScore
  /\ files = [l \in Paths |-> NoFile]
  /\ prevRet = NoCall
  /\ prevScore = NoScore
  /\ cleaned = NoCleaning
  /\ threads = [t \in ThreadIds |-> IdleThread]
  /\ deduped = NoDedup

ProfilerStays ==
  UNCHANGED <<df, ret, score, files, prevRet, prevScore, cleaned, threads, deduped>>

InitOrch ==
  /\ ProfilerAtRest
  /\ dash = DashStart
  /\ \E mode \in AllModes, table \in {"", "T1"} :
       orch = [IdleOrch EXCEPT !.pc = "start", !.mode = mode, !.table = table]

\* conn = OracleConnector(DEFAULT_CONFIG_PATH), before the try: reading the
\* configuration or setting up the log file may raise.
Construct(ok) ==
  /\ orch.pc = "start"
  /\ orch' = IF ok
             THEN [orch EXCEPT !.conn = NewConnector, !.pc = "test"]
             ELSE [orch EXCEPT !.pc = "raised"]
  /\ ProfilerStays
  /\ UNCHANGED dash

\* if not conn.test_connection(): return 2
TestConnection(engine_ok, connect_ok, probe_ok) ==
  /\ orch.pc = "test"
  /\ LET out == TestConnectionOutcome(orch.conn, engine_ok, connect_ok, probe_ok) IN
       orch' = [orch EXCEPT
                  !.conn = out.conn,
                  !.env = <<engine_ok, connect_ok, probe_ok>>,
                  !.tested = IF out.raised THEN "raised"
                             ELSE IF out.result THEN "true" ELSE "false",
                  !.failed = out.raised,
                  !.pending = IF out.raised THEN 1
                              ELSE IF out.result THEN -1 ELSE 2,
                  !.pc = IF out.raised \/ ~out.result THEN "finally"
                         ELSE IF orch.table = "" THEN "tables" ELSE "dispatch"]
  /\ ProfilerStays
  /\ UNCHANGED dash

\* tables = conn.get_table_names(): raises, or returns no table, or some.
GetTableNames(result) ==
  /\ orch.pc = "tables"
  /\ orch' = CASE result = "raise" ->
                    [orch EXCEPT !.lookup = result, !.failed = TRUE,
                                 !.pending = 1, !.pc = "finally"]
               [] result = "empty" ->
                    [orch EXCEPT !.lookup = result, !.pending = 3,
                                 !.pc = "finally"]
               [] OTHER ->
                    [orch EXCEPT !.lookup = result, !.table = "T1",
                                 !.pc = "dispatch"]
  /\ ProfilerStays
  /\ UNCHANGED dash

\* The if/elif chain on mode; the else branch returns 4.
Dispatch ==
  /\ orch.pc = "dispatch"
  /\ orch' = IF orch.mode \in KnownModes
             THEN [orch EXCEPT !.todo = StagesOf(orch.mode), !.pc = "stages"]
             ELSE [orch EXCEPT !.pending = 4, !.pc = "finally"]
  /\ ProfilerStays
  /\ UNCHANGED dash

\* The next call of the branch; an exception goes to the except clause.
RunStage(ok) ==
  /\ orch.pc = "stages"
  /\ orch.todo # <<>>
  /\ orch' = IF ok
             THEN [orch EXCEPT !.done = Append(@, Head(orch.todo)),
                               !.todo = Tail(@)]
             ELSE [orch EXCEPT !.failed = TRUE, !.pending = 1, !.pc = "finally"]
  /\ ProfilerStays
  /\ UNCHANGED dash

\* return 0 after the branch.
ReturnZero ==
  /\ orch.pc = "stages"
  /\ orch.todo = <<>>
  /\ orch' = [orch EXCEPT !.pending = 0, !.pc = "finally"]
  /\ ProfilerStays
  /\ UNCHANGED dash

\* finally: conn.dispose()
Finally ==
  /\ orch.pc = "finally"
  /\ orch' = [orch EXCEPT !.conn = Dispose(@), !.pc = "exiting"]
  /\ ProfilerStays
  /\ UNCHANGED dash

\* The pending return value reaches the caller.
Return ==
  /\ orch.pc = "exiting"
  /\ orch' = [orch EXCEPT !.exit = orch.pending, !.pc = "returned"]
  /\ ProfilerStays
  /\ UNCHANGED dash

NextOrch ==
  \/ \E ok \in BOOLEAN : Construct(ok)
  \/ \E engine_ok \in BOOLEAN, connect_ok \in BOOLEAN, probe_ok \in BOOLEAN :
       TestConnection(engine_ok, connect_ok, probe_ok)
  \/ \E result \in {"raise", "empty", "some"} : GetTableNames(result)
  \/ Dispatch
  \/ \E ok \in BOOLEAN : RunStage(ok)
  \/ ReturnZero
  \/ Finally
  \/ Return

SpecOrch == InitOrch /\ [][NextOrch]_vars

(***************************************************************************)
(* The dashboard in CSV and Oracle mode: a step is one user event and the  *)
(* script run it triggers.  The session starts with the first script run.  *)
(***************************************************************************)
InitDash ==
  /\ ProfilerAtRest
  /\ orch = IdleOrch
  /\ dash = ScriptRun(DashStart, "none", TRUE, FALSE)

\* The user picks the other data source.
SelectSource(src, db_ok) ==
  /\ src # dash.data_source
  /\ dash' = ScriptRun([dash EXCEPT !.radio = src], "none", TRUE, db_ok)
  /\ ProfilerStays
  /\ UNCHANGED orch

\* The user puts a file in the uploader.
Upload(file) ==
  /\ dash.data_source = "CSV Upload"
  /\ dash' = ScriptRun([dash EXCEPT !.uploader = file], "none", TRUE, FALSE)
  /\ ProfilerStays
  /\ UNCHANGED orch

\* The user takes the file out of the uploader.
RemoveUpload ==
  /\ dash.data_source = "CSV Upload"
  /\ dash.uploader # NoUpload
  /\ dash' = ScriptRun([dash EXCEPT !.uploader = NoUpload], "none", TRUE, FALSE)
  /\ ProfilerStays
  /\ UNCHANGED orch

\* The user clicks one of the three action buttons (enabled with data).
Click(button, ok) ==
  /\ dash.data_source = "CSV Upload"
  /\ dash.uploaded_data # "None"
  /\ dash' = ScriptRun(dash, button, ok, FALSE)
  /\ ProfilerStays
  /\ UNCHANGED orch

\* The user picks a table in the Oracle sidebar: one more script run.
SelectTable(db_ok) ==
  /\ dash.data_source = "Oracle Database"
  /\ dash' = ScriptRun(dash, "none", TRUE, db_ok)
  /\ ProfilerStays
  /\ UNCHANGED orch

NextDash ==
  \/ \E src \in {"CSV Upload", "Oracle Database"}, db_ok \in BOOLEAN :
       SelectSource(src, db_ok)
  \/ \E db_ok \in BOOLEAN : SelectTable(db_ok)
  \/ \E file \in UploadFiles : Upload(file)
  \/ RemoveUpload
  \/ \E button \in Buttons, ok \in BOOLEAN : Click(button, ok)

SpecDash == InitDash /\ [][NextDash]_vars

(***************************************************************************)
(* Scoring an arbitrary well-formed ProfilingResult: the counts are any    *)
(* non-negative numbers, not only those profile() produces.                *)
(***************************************************************************)
ArbitraryColumnProfile(j, overall, mismatches) ==
  [column |-> Names[j],
   dtype |-> "object",
   inferred_type |-> "string",
   null_count |-> 0,
   duplicate_rows |-> overall.duplicate_rows,
   type_mismatch_count |-> mismatches,
   unique_count |-> 0,
   mean |-> NaN, median |-> NaN, std |-> NaN, min |-> NaN, max |-> NaN,
   total_rows |-> overall.rows]

ArbitraryOveralls ==
  {[rows |-> r, duplicate_rows |-> d, total_nulls |-> t, columns |-> c] :
     r \in 0..MaxCount, d \in 0..MaxCount, t \in 0..MaxCount, c \in 0..MaxCols}

\* The result with Overall summary o and mismatch counts m, one per column.
ProfilingResult(o, m) ==
  [per_column |-> [j \in 1..o.columns |-> ArbitraryColumnProfile(j, o, m[j])],
   overall |-> o,
   csv_path |-> OutPath(NoName)]

InitScore ==
  /\ df = [nrows |-> 0, cols |-> <<>>]
  /\ \E o \in ArbitraryOveralls : \E m \in [1..o.columns -> 0..MaxCount] :
       ret = Returned(ProfilingResult(o, m))
  /\ score = NoScore
  /\ files = [l \in Paths |-> NoFile]
  /\ prevRet = NoCall
  /\ prevScore = NoScore
  /\ cleaned = NoCleaning
  /\ threads = [t \in ThreadIds |-> IdleThread]
  /\ ElsewhereIdle

NextScore == GenerateDataHealthScore

SpecScore == InitScore /\ [][NextScore]_vars

(***************************************************************************)
(* Properties of the health score, checked under SpecScore.                *)
(***************************************************************************)
Scored == ret.kind = "ok" /\ score.kind = "float"

\* C1: for every ProfilingResult with non-negative counts the score s
\* returned by generate_data_health_score satisfies 0 <= s <= 100.
C1_ScoreBounds ==
  Scored => /\ score.d > 0
            /\ 0 <= score.n
            /\ score.n <= 100 * score.d

\* C1 witness: a score strictly inside (0, 100) of a result whose null count
\* exceeds the number of cells (the cap is in force).
C1_Witness ==
  /\ Scored
  /\ 0 < score.n /\ score.n < 100 * score.d
  /\ ret.value.overall.total_nulls >
       ret.value.overall.rows * Len(ret.value.per_column)
  /\ ret.value.overall.rows >= 1 /\ Len(ret.value.per_column) >= 1

IMin(a, b) == IF a < b THEN a ELSE b

\* The documented formula over the common denominator D = rows * column_count:
\* D * score = clamp(100 D - 50 min(D, nulls) - 25 min(D, dups * column_count)
\*                   - 25 min(D, mismatches), 0, 100 D).
DocumentedScoreTimes(p, D) ==
  LET cc == IF Len(p.per_column) >= 1 THEN Len(p.per_column) ELSE 1
      mm == SumSeq([j \in 1..Len(p.per_column) |-> p.per_column[j].type_mismatch_count])
      raw == 100 * D - 50 * IMin(D, p.overall.total_nulls)
                     - 25 * IMin(D, p.overall.duplicate_rows * cc)
                     - 25 * IMin(D, mm)
  IN IF raw < 0 THEN 0 ELSE IF raw > 100 * D THEN 100 * D ELSE raw

DocumentedDenominator(p) ==
  (IF p.overall.rows >= 1 THEN p.overall.rows ELSE 1)
    * (IF Len(p.per_column) >= 1 THEN Len(p.per_column) ELSE 1)

\* C2: the score is exactly clamp(100 - 50 null_ratio - 25 duplicate_ratio
\* - 25 mismatch_ratio, 0, 100) with rows and column_count floored at 1 and
\* each ratio capped at 1.
C2_ScoreFormula ==
  Scored =>
    score.n * DocumentedDenominator(ret.value)
      = DocumentedScoreTimes(ret.value, DocumentedDenominator(ret.value)) * score.d

\* C2 witness: all three penalties are non-zero and none is capped.
C2_Witness ==
  /\ Scored
  /\ ret.value.overall.rows = 2 /\ Len(ret.value.per_column) = 2
  /\ ret.value.overall.total_nulls = 1 /\ ret.value.overall.duplicate_rows = 1
  /\ ret.value.per_column[1].type_mismatch_count = 1
  /\ ret.value.per_column[2].type_mismatch_count = 0
  /\ score.n * 4 = 275 * score.d

\* C6: with rows, columns, duplicate_rows and mismatches equal, strictly more
\* total_nulls gives a strictly lower score, or an equal score when the null
\* ratio of both results is at the 1.0 cap; never a higher one.
C6_NullDominance ==
  Scored =>
    \A more \in 1..(MaxCount + 1) :
      LET p == ret.value
          q == [p EXCEPT !.overall.total_nulls = p.overall.total_nulls + more]
          D == DocumentedDenominator(p)
          sq == ScoreOutcome(q)
      IN /\ sq.kind = "float"
         /\ \/ sq.n * score.d < score.n * sq.d
            \/ /\ sq.n * score.d = score.n * sq.d
               /\ p.overall.total_nulls >= D

\* C6 witness: a scored result whose null ratio is below the cap, so that one
\* more null lowers the score strictly.
C6_Witness ==
  /\ Scored
  /\ ret.value.overall.rows >= 2 /\ Len(ret.value.per_column) >= 2
  /\ ret.value.overall.total_nulls >= 1
  /\ ret.value.overall.total_nulls < DocumentedDenominator(ret.value)

\* C8: scoring a well-formed ProfilingResult never raises (no division by
\* zero), also with rows = 0 and no column profile, and returns a number; the
\* all-zero result scores 100.
C8_ScoringNeverFails ==
  (ret.kind = "ok" /\ score.kind # "none") =>
    /\ score.kind = "float"
    /\ score.d # 0
    /\ (/\ ret.value.overall.duplicate_rows = 0
        /\ ret.value.overall.total_nulls = 0
        /\ \A j \in 1..Len(ret.value.per_column) :
             ret.value.per_column[j].type_mismatch_count = 0)
         => score.n = 100 * score.d

\* C8 witness: the all-zero result with rows = 0 and no column profile, scored.
C8_Witness ==
  /\ Scored
  /\ ret.value.overall.rows = 0 /\ Len(ret.value.per_column) = 0
  /\ ret.value.overall.duplicate_rows = 0 /\ ret.value.overall.total_nulls = 0
  /\ score.n = 100 * score.d

(***************************************************************************)
(* Properties of profile(), checked under Spec.                            *)
(***************************************************************************)
Called == ret.kind # "none"

NoFileWritten == \A l \in Paths : ~files[l].exists

\* C3: profiling a dataset with zero columns fails with an input error
\* (whatever its type), returns no ProfilingResult and persists nothing;
\* zero rows with at least one column is not an error.
C3_ZeroColumnsRejected ==
  Called =>
    /\ Len(df.cols) = 0 =>
         /\ ret.kind = "raise"
         /\ ~ret.has_value
         /\ NoFileWritten
    /\ (Len(df.cols) >= 1 /\ df.nrows = 0) =>
         (ret.kind = "ok" \/ ret.exc = "OSError")

\* C4: when writing the profile file fails, the computed ProfilingResult
\* (per-column profiles and Overall) is still handed to the caller, with the
\* failure reported.
C4_PersistenceFailureKeepsResult ==
  (Called /\ ret.exc = "OSError") =>
    /\ ret.has_value
    /\ ret.value.per_column = SummaryRows(df)
    /\ ret.value.overall = Overall(df)

\* The storage type a cell's runtime type belongs to.
ConformingTag(dtype) ==
  CASE dtype = "int64" -> "int"
    [] dtype = "float64" -> "float"
    [] dtype = "bool" -> "bool"
    [] dtype = "datetime64" -> "dt"
    [] OTHER -> "str"

\* No null, no row equal to another row, every value of its column's type.
PerfectData(frame) ==
  /\ \A j \in 1..Len(frame.cols) : \A i \in 1..frame.nrows :
       frame.cols[j].values[i].t = ConformingTag(frame.cols[j].dtype)
  /\ \A i, k \in 1..frame.nrows : i # k => RowAt(frame, i) # RowAt(frame, k)

\* C5: a dataset with no nulls, no duplicate rows and only conforming values
\* has health score exactly 100.
C5_PerfectDataScores100 ==
  (Scored /\ PerfectData(df)) => score.n = 100 * score.d

\* C5 witness: a perfect dataset of two rows and two columns, scored.
C5_Witness ==
  /\ Scored /\ PerfectData(df)
  /\ df.nrows = 2 /\ Len(df.cols) = 2
  /\ df.cols[1].dtype = "object" /\ df.cols[2].dtype = "float64"
  /\ score.n = 100 * score.d

\* C7: a dataset with 1 column and 0 rows profiles successfully with
\* total_rows = 0, null_count = 0, unique_count = 0, type_mismatch_count = 0
\* and undefined numeric statistics, and its score is 100.
C7_EmptyDatasetProfiles ==
  (Called /\ Len(df.cols) = 1 /\ df.nrows = 0 /\ ret.exc # "OSError") =>
    /\ ret.kind = "ok"
    /\ Len(ret.value.per_column) = 1
    /\ LET c == ret.value.per_column[1]
       IN /\ c.total_rows = 0 /\ c.null_count = 0
          /\ c.unique_count = 0 /\ c.type_mismatch_count = 0
          /\ IsNaN(c.mean) /\ IsNaN(c.median) /\ IsNaN(c.std)
          /\ IsNaN(c.min) /\ IsNaN(c.max)
    /\ score.kind # "none" => (score.kind = "float" /\ score.n = 100 * score.d)

\* The rows that equal some earlier row.
LaterOccurrences(frame) ==
  {i \in 1..frame.nrows : \E k \in 1..(i - 1) : RowAt(frame, k) = RowAt(frame, i)}

\* C9: duplicate_rows is the number of rows equal (over all columns) to some
\* earlier row, the first occurrence not counted; rows (1,x),(1,x),(2,y)
\* give 1.
C9_DuplicateRowsCount ==
  ret.kind = "ok" =>
    /\ ret.value.overall.duplicate_rows = Cardinality(LaterOccurrences(df))
    /\ \A j \in 1..Len(ret.value.per_column) :
         ret.value.per_column[j].duplicate_rows = Cardinality(LaterOccurrences(df))
    /\ df = ExampleDuplicateFrame => ret.value.overall.duplicate_rows = 1

\* C9 witness: the example frame profiled, with duplicate_rows = 1.
C9_Witness ==
  /\ ret.kind = "ok"
  /\ df = ExampleDuplicateFrame
  /\ ret.value.overall.duplicate_rows = 1

C11_ColumnProfileRanges ==
  ret.kind = "ok" =>
    \A j \in 1..Len(ret.value.per_column) :
      LET c == ret.value.per_column[j]
      IN /\ 0 <= c.null_count /\ c.null_count <= c.total_rows
         /\ 0 <= c.unique_count /\ c.unique_count <= c.total_rows - c.null_count
         /\ 0 <= c.type_mismatch_count
         /\ c.type_mismatch_count <= c.total_rows - c.null_count

\* C11 witness: a returned profile of a column that holds a null, a
\* non-conforming value and a conforming one.
C11_Witness ==
  /\ ret.kind = "ok"
  /\ \E j \in 1..Len(ret.value.per_column) :
       LET c == ret.value.per_column[j]
       IN /\ c.total_rows = 3 /\ c.null_count = 1
          /\ c.unique_count = 2 /\ c.type_mismatch_count = 1

\* The documented label of each storage type.
DocumentedLabel(dtype) ==
  CASE dtype = "int64" -> "int"
    [] dtype = "float64" -> "float"
    [] dtype = "bool" -> "bool"
    [] dtype = "datetime64" -> "datetime"
    [] OTHER -> "string"

\* C12: the inferred type is one label of {int, float, bool, datetime,
\* string} fixed by the column's storage type alone, whatever its values.
C12_TypeInferenceByStorage ==
  ret.kind = "ok" =>
    \A j \in 1..Len(ret.value.per_column) :
      /\ ret.value.per_column[j].inferred_type
           \in {"int", "float", "bool", "datetime", "string"}
      /\ ret.value.per_column[j].inferred_type = DocumentedLabel(df.cols[j].dtype)

\* C12 witness: an object column holding only integers, labelled string, next
\* to an int64 column, labelled int.
C12_Witness ==
  /\ ret.kind = "ok"
  /\ Len(df.cols) = 2 /\ df.nrows = 2
  /\ df.cols[1].dtype = "object" /\ df.cols[2].dtype = "int64"
  /\ \A i \in 1..2 : df.cols[1].values[i].t = "int"
  /\ ret.value.per_column[1].inferred_type = "string"
  /\ ret.value.per_column[2].inferred_type = "int"

\* C13: an object column whose values are numeric-looking text ("1", "2") is
\* inferred string and has no type mismatch.
C13_NumericTextIsString ==
  ret.kind = "ok" =>
    \A j \in 1..Len(df.cols) :
      ( /\ df.cols[j].dtype = "object"
        /\ DropNa(df.cols[j].values) # <<>>
        /\ \A i \in 1..df.nrows :
             IsNa(df.cols[j].values[i]) \/ LooksNumeric(df.cols[j].values[i]) )
      => /\ ret.value.per_column[j].inferred_type = "string"
         /\ ret.value.per_column[j].type_mismatch_count = 0

\* C13 witness: the column ["1", "2"] has been profiled.
C13_Witness ==
  /\ ret.kind = "ok"
  /\ \E j \in 1..Len(df.cols) :
       /\ df.cols[j] = [dtype |-> "object",
                        values |-> <<NumericText(1), NumericText(2)>>]
       /\ ret.value.per_column[j].inferred_type = "string"
       /\ ret.value.per_column[j].type_mismatch_count = 0

\* The non-null values of a column that pd.to_datetime cannot parse.
ParseFailures(col) ==
  Len(SelectSeq(DropNa(col.values), LAMBDA x : ToDatetimeRaises(x)))

NumericStorage == {"int64", "float64", "bool"}

AllStatsUndefined(c) ==
  IsNaN(c.mean) /\ IsNaN(c.median) /\ IsNaN(c.std) /\ IsNaN(c.min) /\ IsNaN(c.max)

C16_AllNullColumnProfiles ==
  ( /\ Called
    /\ ~(ret.kind = "raise" /\ ret.exc = "OSError")
    /\ df.nrows >= 1 )
  => \A j \in 1..Len(df.cols) :
       DropNa(df.cols[j].values) = <<>> =>
         /\ ret.kind = "ok"
         /\ ret.value.per_column[j].type_mismatch_count = 0

\* C17: the dataset a = [1, 2, null, 4], b = ["x", "y", "y", null],
\* c = [1.0, 2.5, 2.5, 4.0] has Overall {rows 4, columns 3, duplicate_rows 0,
\* total_nulls 2}, no type mismatch, null ratio 2/12 and health score
\* 100 - 50 * (2/12) = 275/3.
C17_EndToEndExample ==
  (df = ExampleProfileFrame /\ ret.kind = "ok") =>
    /\ ret.value.overall =
         [rows |-> 4, duplicate_rows |-> 0, total_nulls |-> 2, columns |-> 3]
    /\ MismatchSum(ret.value) = 0
    /\ REq(NullRatio(ret.value), Rat(2, 12))
    /\ score.kind = "float" => score.n * 3 = 275 * score.d

\* C17 witness: the example has been profiled and scored.
C17_Witness ==
  /\ df = ExampleProfileFrame
  /\ Scored
  /\ ret.value.overall.total_nulls = 2
  /\ score.n * 3 = 275 * score.d

\* The documented file of a name: profile_<label>.csv in the profiles
\* directory, the label being the name with its separators replaced, or
\* 'dataset' without a name.
DocumentedPath(name) ==
  [dir |-> "profiles",
   file |-> <<"profile_">>
              \o (IF name = NoName THEN <<"dataset">>
                  ELSE [i \in 1..Len(name) |-> IF name[i] = Sep THEN "_" ELSE name[i]])
              \o <<".csv">>]

\* C19: after a successful profile a file exists at the returned csv_path,
\* which is the documented path of some name and holds no separator; the file
\* has the header of the thirteen fields and one row per dataset column.
C19_PersistedProfile ==
  ret.kind = "ok" =>
    /\ \E name \in ProfileNames : ret.value.csv_path = DocumentedPath(name)
    /\ \A i \in 1..Len(ret.value.csv_path.file) : ret.value.csv_path.file[i] # Sep
    /\ files[ret.value.csv_path].exists
    /\ files[ret.value.csv_path].header = ProfileFields
    /\ Len(files[ret.value.csv_path].rows) = Len(df.cols)
    /\ \A j \in 1..Len(df.cols) :
         /\ DOMAIN files[ret.value.csv_path].rows[j]
              = {ProfileFields[k] : k \in 1..Len(ProfileFields)}
         /\ files[ret.value.csv_path].rows[j].column = Names[j]

(***************************************************************************)
(* Parallel profiling, checked under SpecPar.                              *)
(***************************************************************************)
\* The rows the file of thread t's name holds are those of t's dataset.
OwnFile(t) ==
  files[OutPath(threads[t].name)] = CsvFile(SummaryRows(threads[t].df))

AsAlone(t) ==
  threads[t].ret = ProfileOutcome(threads[t].df, threads[t].name, TRUE)

C20_FillMeanLeavesNoNull ==
  (cleaned.kind = "ok" /\ cleaned.strategy = "fill_mean") =>
    /\ cleaned.frame.nrows = df.nrows
    /\ \A j \in 1..Len(cleaned.frame.cols) :
         /\ Len(cleaned.frame.cols[j].values) = df.nrows
         /\ \A i \in 1..df.nrows : ~IsNa(cleaned.frame.cols[j].values[i])

(***************************************************************************)
(* Removing duplicates, checked under SpecDedup.                           *)
(***************************************************************************)
\* The rows of a frame that equal no earlier row, in order.
FirstOccurrences(frame) ==
  SelectSeq([i \in 1..frame.nrows |-> i], LAMBDA i : i \notin LaterOccurrences(frame))

\* C21: clean_duplicates returns the rows of the input that equal no earlier
\* row, in their order and with their columns: no two rows of the result are
\* equal, and the result is shorter than the input exactly when the input has
\* a duplicate row.
C21_CleanDuplicatesKeepsFirst ==
  deduped.kind = "ok" =>
    /\ Len(deduped.frame.cols) = Len(df.cols)
    /\ \A j \in 1..Len(df.cols) : deduped.frame.cols[j].dtype = df.cols[j].dtype
    /\ deduped.frame.nrows = Len(FirstOccurrences(df))
    /\ \A k \in 1..deduped.frame.nrows :
         RowAt(deduped.frame, k) = RowAt(df, FirstOccurrences(df)[k])
    /\ \A a, b \in 1..deduped.frame.nrows :
         a # b => RowAt(deduped.frame, a) # RowAt(deduped.frame, b)
    /\ IF LaterOccurrences(df) # {} THEN deduped.frame.nrows < df.nrows
       ELSE deduped.frame.nrows = df.nrows

\* C21 witness: rows A, B, A cleaned to A, B.
C21_Witness ==
  /\ deduped.kind = "ok"
  /\ df.nrows = 3 /\ Len(df.cols) = 1
  /\ RowAt(df, 1) = RowAt(df, 3) /\ RowAt(df, 1) # RowAt(df, 2)
  /\ deduped.frame.nrows = 2
  /\ RowAt(deduped.frame, 1) = RowAt(df, 1)
  /\ RowAt(deduped.frame, 2) = RowAt(df, 2)

\* C27: the cleaned frame has Overall.rows - Overall.duplicate_rows rows of
\* the profile of the same dataset, and the profile of the cleaned frame
\* reports no duplicate row.
C27_CleanerProfilerAgree ==
  deduped.kind = "ok" =>
    /\ ret.kind = "ok" =>
         deduped.frame.nrows = ret.value.overall.rows - ret.value.overall.duplicate_rows
    /\ deduped.ret.kind = "ok" => deduped.ret.value.overall.duplicate_rows = 0

\* C27 witness: a dataset with two duplicate rows, profiled before and after
\* cleaning.
C27_Witness ==
  /\ deduped.kind = "ok" /\ ret.kind = "ok" /\ deduped.ret.kind = "ok"
  /\ ret.value.overall.duplicate_rows = 2
  /\ deduped.frame.nrows = ret.value.overall.rows - 2
  /\ deduped.ret.value.overall.rows = deduped.frame.nrows
  /\ deduped.ret.value.overall.duplicate_rows = 0

C24_InRangeBeforeClamp ==
  Scored =>
    /\ RLe(Rat(0, 1), ScoreBeforeClamp(ret.value))
    /\ RLe(ScoreBeforeClamp(ret.value), Rat(100, 1))
    /\ REq(Rat(score.n, score.d), ScoreBeforeClamp(ret.value))
    /\ RLe(NullRatio(ret.value), Rat(1, 1))
    /\ RLe(DupRatio(ret.value), Rat(1, 1))
    /\ RLe(MismatchRatio(ret.value), Rat(1, 1))

\* C24 witness: every count exceeds its denominator and the score is 0.
C24_Witness ==
  /\ Scored
  /\ ret.value.overall.total_nulls > CellCount(ret.value)
  /\ ret.value.overall.duplicate_rows > RowsOf(ret.value)
  /\ MismatchSum(ret.value) > CellCount(ret.value)
  /\ score.n = 0

\* C25: the health score of a profile that profile() produced from a dataset
\* is greater than 25.
C25_ScoreAbove25 ==
  Scored => score.n > 25 * score.d

\* C25 witness: four equal rows of one missing value each score 31.25.
C25_Witness ==
  /\ Scored
  /\ df.nrows = 4 /\ Len(df.cols) = 1
  /\ ret.value.overall.total_nulls = 4
  /\ ret.value.overall.duplicate_rows = 3
  /\ score.n * 4 = 125 * score.d

\* The non-null values of a column that are not text.
NonText(col) == Len(SelectSeq(DropNa(col.values), LAMBDA x : x.t # "str"))

\* C26: type_mismatch_count is 0 in every column stored as integer, float,
\* boolean or datetime; in a column inferred as string it is the number of
\* non-null values that are not text.
C26_MismatchOnlyInStringColumns ==
  ret.kind = "ok" =>
    \A j \in 1..Len(df.cols) :
      LET c == ret.value.per_column[j]
      IN /\ df.cols[j].dtype \in {"int64", "float64", "bool", "datetime64"}
              => c.type_mismatch_count = 0
         /\ c.type_mismatch_count # 0 => c.inferred_type = "string"
         /\ c.inferred_type = "string" => c.type_mismatch_count = NonText(df.cols[j])

\* C26 witness: a float column without mismatch beside an object column
\* whose integer is its one mismatch.
C26_Witness ==
  /\ ret.kind = "ok"
  /\ Len(df.cols) = 2 /\ df.nrows = 2
  /\ df.cols[1].dtype = "float64" /\ df.cols[2].dtype = "object"
  /\ df.cols[2].values = <<StrCell(1), IntCell(1)>>
  /\ ret.value.per_column[1].type_mismatch_count = 0
  /\ ret.value.per_column[2].type_mismatch_count = 1

(***************************************************************************)
(* The connector and orchestrate, checked under SpecOrch.                  *)
(***************************************************************************)
\* C22: test_connection returns True when connecting and the probe both
\* succeed and False, without raising, when either fails; whichever it
\* returns, no connection it opened is left open.
C22_TestConnectionClosesAndReports ==
  orch.tested # "none" =>
    /\ orch.tested = (IF orch.env[1] /\ orch.env[2] /\ orch.env[3]
                      THEN "true" ELSE "false")
    /\ orch.conn.open = 0
    /\ orch.conn.opened = (IF orch.env[1] /\ orch.env[2] THEN 1 ELSE 0)

\* The probe failed on a connection that was opened: False, and closed.
C22_Witness ==
  /\ orch.tested = "false"
  /\ orch.env = <<TRUE, TRUE, FALSE>>
  /\ orch.conn.opened = 1
  /\ orch.conn.open = 0

\* C28: on every path through the try (failed connectivity test, no tables,
\* unknown mode, an exception in a stage, normal completion) dispose() has
\* been called once, and no engine is left live, before orchestrate returns.
C28_DisposedBeforeReturn ==
  orch.pc \in {"exiting", "returned"} =>
    /\ orch.conn.dispose_calls = 1
    /\ orch.conn.engine # "created"
    /\ orch.pending \in {0, 1, 2, 3, 4}

\* A later stage raised after the connection test created the engine, and
\* orchestrate has returned 1 with the engine disposed.
C28_Witness ==
  /\ orch.pc = "returned"
  /\ orch.exit = 1
  /\ orch.done # <<>>
  /\ orch.conn.engine = "disposed"
  /\ orch.conn.dispose_calls = 1

\* The stages the modes are documented to run.
DocumentedStages(mode) ==
  CASE mode = "profile" -> <<"profile">>
    [] mode = "clean"   -> <<"clean">>
    [] mode = "detect"  -> <<"detect">>
    [] mode = "report"  -> <<"profile", "detect", "report">>
    [] mode = "all"     -> <<"profile", "clean", "detect", "report">>
    [] OTHER            -> <<>>

IsPipelineStage(stage) == stage # "fetch"

\* C29: orchestrate never propagates an exception and always returns an
\* exit code: 2 when the connectivity test fails, 3 when no table is given
\* and the schema has none, 4 for an unknown mode, 1 when a stage raises,
\* and 0 only when every stage of the selected mode completed.
C29_AlwaysAnExitCode ==
  /\ orch.pc # "raised"
  /\ orch.pc = "returned" =>
       /\ orch.exit \in {0, 1, 2, 3, 4}
       /\ orch.tested = "false" => orch.exit = 2
       /\ orch.lookup = "empty" => orch.exit = 3
       /\ (orch.tested = "true" /\ orch.lookup \in {"none", "some"}
             /\ orch.mode \notin KnownModes) => orch.exit = 4
       /\ orch.failed => orch.exit = 1
       /\ orch.exit = 0 =>
            /\ orch.mode \in KnownModes
            /\ SelectSeq(orch.done, IsPipelineStage) = DocumentedStages(orch.mode)

(***************************************************************************)
(* The dashboard, checked under SpecDash.                                  *)
(***************************************************************************)
\* C30: at the end of every script run in CSV mode a readable file in the
\* uploader is loaded (uploaded_data is not None), also when it has the
\* name of the file loaded before the data source was switched away and
\* back; and the three results are not None only while uploaded_data is not
\* None.
C30_ReadableUploadIsLoaded ==
  /\ (dash.data_source = "CSV Upload" /\ dash.uploader # NoUpload
        /\ dash.uploader.readable) => dash.uploaded_data # "None"
  /\ dash.uploaded_data = "None" =>
       /\ dash.profiling_result = "None"
       /\ dash.cleaned_data = "None"
       /\ dash.anomaly_result = "None"

====
